---- MODULE Spec2Model ----
(***************************************************************************)
(* Home-feed generator of server/recommendations.ts: the per-user feed     *)
(* cache, the candidate filter/diversifier and generateHomeFeed as a       *)
(* process that is suspended at each of its awaits, so that invocations    *)
(* interleave the way the event loop interleaves them.                     *)
(*                                                                         *)
(* A catalog track is represented by its id; its artist name is the        *)
(* catalog's Username(id).  Time is the value of Date.now() in ms.         *)
(***************************************************************************)
EXTENDS Integers, Sequences, FiniteSets, TLC

\* ---------------------------------------------------------------- bounds
MaxTicks == 2                 \* the clock runs from 0 to MaxTicks * TickMs
MaxCalls == 3                 \* invocations of generateHomeFeed started in a run
RaceTicks == 1                \* the same two bounds where invocations overlap
RaceCalls == 3
MaxRequests == 2              \* calls of the catalog client in a run
MaxPrefOps == 3               \* setPreference/removePreference operations in a run
MaxLimit == 2                 \* getLikedTracks is called with limit 1..MaxLimit
MaxAdds == 3                  \* playlists.addTrack calls in a run
MaxLen == 3                   \* length of the list given to the filter, the sampler
MaxHistory == 13              \* plays in the listening history of a taste profile
MaxDate == 8                  \* latest createdAt of a preference, in half lives
ExpRange == 4                 \* halvings after which Math.exp underflows to 0
RichCalls == 1                \* invocations for the user with the rich taste profile

TickMs == 60 * 1000           \* granularity of the modelled clock
Users == {1, 2, 3}
Slots == {1, 2}               \* invocations that can be in flight together

\* ------------------------------------------------------ program constants
HOME_FEED_TTL_MS == 2 * 60 * 1000
MinPlaylistTracks == 12
MaxPlaylists == 5
MinPlaylists == 4
UNKNOWN == 0                  \* the artist key "unknown"
NoName == 0 - 2               \* user.username is undefined
NoId == 0                     \* a track whose id is not a number
NaN == 0 - 1                  \* Number.parseInt of a non-numeric string

\* ------------------------------------------------------------ the catalog
Range(a, b) == [k \in 1..(b - a + 1) |-> a + k - 1]

\* user.username of the catalog track with this id (UNKNOWN: no username)
\* (three tracks per artist; 40..42 carry no username, and the artist of
\* 43..99 is really called "unknown")
Username(id) ==
  IF id >= 100 THEN (id + 2) \div 3
  ELSE IF id >= 43 THEN UNKNOWN ELSE IF id >= 40 THEN NoName ELSE (id + 2) \div 3

PoolA == Range(1, 18)
PoolB == <<10, 10, NoId>> \o Range(11, 33)
PoolC == Range(22, 45)
PoolEmpty == <<>>
Throw == <<NaN>>              \* the call rejects

\* what the catalog can answer to searchTracks(q, _)
SearchResults(q) ==
  CASE q = "Rock" -> {PoolB}
    [] q = "Muse" -> {PoolC}
    [] q = "Top 50" -> {PoolB, PoolEmpty}
    [] q = "Jazz" -> {Range(157, 174)}
    [] q = "Blues" -> {Range(175, 192)}
    [] q = "Soul" -> {Range(193, 210)}
    [] q = "Ella" -> {Range(211, 228)}
    [] q = "Etta" -> {Range(229, 246)}
    [] OTHER -> {PoolEmpty}

\* what the catalog can answer to getRelatedTracks(id, _)
RelatedResults(id) ==
  CASE id = 3 -> {PoolA}
    [] id = 101 -> {Range(101, 118)}
    [] id = 120 -> {Range(121, 156)}
    [] OTHER -> {PoolEmpty}

\* how one catalog call can settle
SearchOutcomes(q) == SearchResults(q) \cup {Throw}
RelatedOutcomes(id) == RelatedResults(id) \cup {Throw}

\* ------------------------------------------- candidate filter/diversifier
Ids(tracks) == {tracks[k] : k \in DOMAIN tracks}

\* t.user?.username ?? "unknown"
ArtistKey(t) == IF Username(t) = NoName THEN UNKNOWN ELSE Username(t)

ArtistCapReached_gt(current, maxPerArtist) == current > maxPerArtist
\* if (current >= maxPerArtist) continue;
ArtistCapReached(current, maxPerArtist) == current >= maxPerArtist

RECURSIVE diversifyLoop(_, _, _, _)
diversifyLoop(tracks, maxPerArtist, counts, out) ==
  IF tracks = <<>> THEN out
  ELSE LET t == Head(tracks)
           artist == ArtistKey(t)
           current == IF artist \in DOMAIN counts THEN counts[artist] ELSE 0
       IN IF ArtistCapReached(current, maxPerArtist)
          THEN diversifyLoop(Tail(tracks), maxPerArtist, counts, out)
          ELSE diversifyLoop(Tail(tracks), maxPerArtist,
                             (artist :> current + 1) @@ counts, Append(out, t))

diversifyByArtist(tracks, maxPerArtist) ==
  diversifyLoop(tracks, maxPerArtist, <<>>, <<>>)

\* typeof t.id !== "number"
HasNumericId(t) == t # NoId

\* the four `continue`s of the first loop of filterAndDedupeTracks
DroppedById_noSeen(t, excludeIds, dislikedIds, seen) ==
  \/ ~HasNumericId(t)
  \/ t \in dislikedIds
  \/ t \in excludeIds
DroppedById(t, excludeIds, dislikedIds, seen) ==
  \/ ~HasNumericId(t)
  \/ t \in dislikedIds
  \/ t \in excludeIds
  \/ t \in seen

RECURSIVE filterLoop(_, _, _, _, _)
filterLoop(tracks, excludeIds, dislikedIds, seen, filtered) ==
  IF tracks = <<>> THEN filtered
  ELSE LET t == Head(tracks) IN
       IF DroppedById(t, excludeIds, dislikedIds, seen)
       THEN filterLoop(Tail(tracks), excludeIds, dislikedIds, seen, filtered)
       ELSE filterLoop(Tail(tracks), excludeIds, dislikedIds,
                       seen \cup {t}, Append(filtered, t))

Slice(s, limit) == SubSeq(s, 1, IF Len(s) < limit THEN Len(s) ELSE limit)

filterAndDedupeTracks(tracks, excludeIds, dislikedIds, maxPerArtist, limit) ==
  Slice(diversifyByArtist(filterLoop(tracks, excludeIds, dislikedIds, {}, <<>>),
                          maxPerArtist),
        limit)

\* ------------------------------------------------------ taste profile data
\* Number.parseInt(s, 10) on the soundcloudId strings the database holds
ParseInt(s) ==
  CASE s = "3" -> 3
    [] s = "2" -> 2
    [] s = "26" -> 26
    [] s = "26px" -> 26
    [] s = "101" -> 101
    [] s = "120" -> 120
    [] OTHER -> NaN

IsFinite(n) == n # NaN

\* String.prototype.trim on the genre/artist strings the database holds
Trim(s) ==
  CASE s = " Rock" -> "Rock"
    [] s = " " -> ""
    [] OTHER -> s

\* rows of getUserTrackPreferencesDetailed: decay is timeDecayFactor(createdAt, 21)
\* in thousandths; rows of getUserListeningHistory: cdecay is
\* completion * timeDecayFactor(playedAt, 10) in thousandths
Pref(scId, genre, artist, preference, decay) ==
  [soundcloudId |-> scId, genre |-> genre, artist |-> artist,
   preference |-> preference, decay |-> decay]
Hist(scId, genre, artist, cdecay) ==
  [soundcloudId |-> scId, genre |-> genre, artist |-> artist, cdecay |-> cdecay]

\* what the three persistence reads return for each user (user 3 has played
\* track 120 twice)
TasteOf(u) ==
  CASE u = 1 ->
       [prefs |-> <<Pref("3", " Rock", "Muse", "like", 1000),
                    Pref("26", "Pop", "", "dislike", 900)>>,
        history |-> <<Hist("26px", "Rock", "Muse", 500)>>,
        disliked |-> <<"26", "2", "n/a">>]
    [] u = 3 ->
       [prefs |-> <<Pref("101", "Jazz", "Ella", "like", 1000),
                    Pref("n/a", "Soul", "Ella", "like", 100)>>,
        history |-> <<Hist("120", "Blues", "Etta", 500),
                      Hist("120", "Blues", "Etta", 400)>>,
        disliked |-> <<>>]
    [] OTHER -> [prefs |-> <<>>, history |-> <<>>, disliked |-> <<>>]

\* ------------------------------------------------------------ pushScore
\* a Map<string, number> is the sequence of its entries in insertion order
RECURSIVE MapIndex(_, _, _)
MapIndex(map, k, from) ==
  IF from > Len(map) THEN 0
  ELSE IF map[from].key = k THEN from ELSE MapIndex(map, k, from + 1)

pushScore(map, key, add) ==
  IF key = "" THEN map
  ELSE LET k == Trim(key) IN
       IF k = "" THEN map
       ELSE LET at == MapIndex(map, k, 1) IN
            IF at = 0 THEN Append(map, [key |-> k, score |-> add])
            ELSE [map EXCEPT ![at].score = @ + add]

\* Array.prototype.sort((a, b) => b.score - a.score): stable, descending
RECURSIVE InsertDesc(_, _)
InsertDesc(sorted, x) ==
  IF sorted = <<>> THEN <<x>>
  ELSE IF Head(sorted).score >= x.score
       THEN <<Head(sorted)>> \o InsertDesc(Tail(sorted), x)
       ELSE <<x>> \o sorted

RECURSIVE SortDesc(_)
SortDesc(s) ==
  IF s = <<>> THEN <<>> ELSE InsertDesc(SortDesc(SubSeq(s, 1, Len(s) - 1)), s[Len(s)])

\* ---------------------------------------------------- weightedRandomSelect
\* the set of results the random draws can produce: with no more candidates
\* than count, the candidates themselves; otherwise count candidates at
\* pairwise distinct indices, in any order
weightedRandomSelect(candidates, count) ==
  IF Len(candidates) <= count THEN {candidates}
  ELSE {[k \in 1..count |-> candidates[f[k]]] :
          f \in {g \in [1..count -> 1..Len(candidates)] :
                   \A a, b \in 1..count : a # b => g[a] # g[b]}}

Min(a, b) == IF a < b THEN a ELSE b

\* ------------------------------------------------ taste profile + selection
IsLike(p) == p.preference = "like"
HasSeedId(r) == IsFinite(ParseInt(r.soundcloudId))

\* new Set(dislikedSoundcloudIds.map(parseInt).filter(isFinite))
DislikedIdSet(disliked) ==
  {ParseInt(disliked[k]) : k \in {j \in DOMAIN disliked : IsFinite(ParseInt(disliked[j]))}}

RECURSIVE scoreLiked(_, _, _)
scoreLiked(map, liked, field) ==
  IF liked = <<>> THEN map
  ELSE scoreLiked(pushScore(map, Head(liked)[field], 3 * Head(liked).decay),
                  Tail(liked), field)

RECURSIVE scoreHistory(_, _, _)
scoreHistory(map, history, field) ==
  IF history = <<>> THEN map
  ELSE scoreHistory(pushScore(map, Head(history)[field], 2 * Head(history).cdecay),
                    Tail(history), field)

\* genreScores / artistScores, sorted by score
Ranked(prefs, history, field) ==
  SortDesc(scoreHistory(scoreLiked(<<>>, SelectSeq(prefs, IsLike), field),
                        history, field))

Seed(scId, reason, score) == [soundcloudId |-> scId, reason |-> reason, score |-> score]

SeedCandidates(prefs, history) ==
  LET liked == SelectSeq(SelectSeq(prefs, IsLike), HasSeedId)
      hist == SelectSeq(history, HasSeedId)
  IN [k \in 1..Len(liked) |->
        Seed(ParseInt(liked[k].soundcloudId), "like", 5 * liked[k].decay)]
     \o [k \in 1..Len(hist) |->
        Seed(ParseInt(hist[k].soundcloudId), "history", 3 * hist[k].cdecay)]

validCandidates_keepDisliked(prefs, history, dislikedIds) ==
  Slice(SortDesc(SeedCandidates(prefs, history)), 10)
validCandidates(prefs, history, dislikedIds) ==
  LET NotDisliked(c) == c.soundcloudId \notin dislikedIds
  IN Slice(SortDesc(SelectSeq(SeedCandidates(prefs, history), NotDisliked)), 10)

Keys(entries) == [k \in 1..Len(entries) |-> entries[k].key]

\* lines 158-246: every (dislikedIds, seeds, selectedGenres, selectedArtists)
\* the profile builder and the three sampler calls can produce
Selections(taste) ==
  LET dislikedIds == DislikedIdSet(taste.disliked)
      allGenres == Ranked(taste.prefs, taste.history, "genre")
      allArtists == Ranked(taste.prefs, taste.history, "artist")
      valid == validCandidates(taste.prefs, taste.history, dislikedIds)
  IN {[dislikedIds |-> dislikedIds, seeds |-> s,
       selectedGenres |-> Keys(g), selectedArtists |-> Keys(a)] :
        s \in weightedRandomSelect(valid, Min(3, Len(valid))),
        g \in weightedRandomSelect(Slice(allGenres, Min(5, Len(allGenres))),
                                   Min(3, Len(allGenres))),
        a \in weightedRandomSelect(Slice(allArtists, Min(4, Len(allArtists))),
                                   Min(2, Len(allArtists)))}

\* ------------------------------------------------------------------ state
VARIABLES
  homeFeedCache,   \* user id -> cache entry (NoEntry: the Map has no such key)
  now,             \* Date.now()
  inv,             \* slot -> the invocation of generateHomeFeed running in it
  calls,           \* invocations started so far
  scope            \* the slots, users and bounds of the run (never changes)

\* the catalog client and the two tables of the persistence layer, each of
\* them exercised by a specification of its own
VARIABLES
  request,           \* the searchTracks/getRelatedTracks call in progress
  trackPreferences,  \* rows of the table track_preferences
  prefSession,       \* clock, autoincrement and last query of that table
  playlistTracks,    \* rows of the table playlist_tracks
  adders,            \* the playlists.addTrack calls in progress
  trackRows          \* rows of the table tracks

\* the call of one of the module's functions on its own (filter, sampler,
\* decay), from its arguments to its result
VARIABLE calc

others ==
  <<request, trackPreferences, prefSession, playlistTracks, adders, trackRows, calc>>
feedVars == <<homeFeedCache, now, inv, calls, scope>>
vars == <<homeFeedCache, now, inv, calls, scope, others>>

NoEntry == [present |-> FALSE, expires |-> 0, data |-> <<>>, shownTrackIds |-> {}]

\* the ids of all tracks of a list of playlists
ShownIds(playlists) == UNION {Ids(playlists[k].tracks) : k \in DOMAIN playlists}

CacheEntry_noShown(t, playlists) ==
  [present |-> TRUE, expires |-> t + HOME_FEED_TTL_MS, data |-> playlists,
   shownTrackIds |-> {}]
CacheEntry_shortTTL(t, playlists) ==
  [present |-> TRUE, expires |-> t + TickMs, data |-> playlists,
   shownTrackIds |-> ShownIds(playlists)]
\* { expires: Date.now() + HOME_FEED_TTL_MS, data, shownTrackIds }
CacheEntry(t, playlists) ==
  [present |-> TRUE, expires |-> t + HOME_FEED_TTL_MS, data |-> playlists,
   shownTrackIds |-> ShownIds(playlists)]

CacheHit_ignoreForce(cached, forceRefresh, t) ==
  cached.present /\ cached.expires > t
CacheHit_inclusive(cached, forceRefresh, t) ==
  ~forceRefresh /\ cached.present /\ cached.expires >= t
\* !forceRefresh && cached && cached.expires > Date.now()
CacheHit(cached, forceRefresh, t) ==
  ~forceRefresh /\ cached.present /\ cached.expires > t

CacheAfterHit_sliding(cache, u, t) ==
  [cache EXCEPT ![u].expires = t + HOME_FEED_TTL_MS]
\* the cache-hit branch returns without touching the Map
CacheAfterHit(cache, u, t) == cache

\* cached?.shownTrackIds ?? new Set()
PreviouslyShown(cached) == IF cached.present THEN cached.shownTrackIds ELSE {}

PlaylistId(stage, reason, seedId, q) ==
  [stage |-> stage, reason |-> reason, seedId |-> seedId, q |-> q]
Playlist(id, tracks) == [id |-> id, tracks |-> tracks]

genreFallbacks == <<"Hip-hop", "Electronic", "Pop", "Rock", "Indie">>

IdleInv ==
  [pc |-> "idle", userId |-> 0, forceRefresh |-> FALSE,
   previouslyShown |-> {}, dislikedIds |-> {}, seeds |-> <<>>,
   selectedGenres |-> <<>>, selectedArtists |-> <<>>, idx |-> 0,
   playlists |-> <<>>, usedGlobal |-> {},
   result |-> <<>>, outcome |-> "none",
   \* bookkeeping for the properties: how the call ended and the persistence
   \* reads and catalog calls it issued; the expiry of the cache entry that
   \* served it and whether that entry is still the stored one; the slots
   \* whose finished non-forced call for the same user this call follows
   \* within that call's TTL window (after), and those of them whose entry
   \* was still the stored one when this call began (afterIntact)
   \* threw/answered: some catalog call of this invocation rejected/resolved
   \* issued: the catalog calls issued so far, in order; outstanding: how
   \* many of them have not settled; readsOut: persistence reads not settled
   issued |-> <<>>, outstanding |-> 0, readsOut |-> 0,
   \* earlier: when the entry this call read holds the list of the normal-path
   \* regeneration that ran in this slot before it, what that one excluded
   earlier |-> {},
   path |-> "none", reads |-> 0, calls |-> 0, threw |-> FALSE, answered |-> FALSE,
   until |-> 0, intact |-> FALSE, after |-> {}, afterIntact |-> {}]

\* no catalog client call has been made
NoRequest ==
  [pc |-> "idle", fn |-> "none", i |-> 0, attempts |-> 0, log |-> <<>>,
   outcome |-> "none", result |-> <<>>, served |-> 0]

InitRequest == request = NoRequest

\* users and (persisted) tracks of the preference operations
PrefUsers == {1, 2}
PrefTracks == {1, 2}

\* no getUserLikedTracks query has been made
NoQuery == [userId |-> 0, limit |-> 0, result |-> <<>>]

\* clock: the database's now(), in seconds; nextId: the table's
\* AUTO_INCREMENT; ops: operations so far; latest: per (user, track) the
\* value of the latest set not followed by a remove ("none": no such set);
\* query: the last getUserLikedTracks call and its result
NoSession ==
  [clock |-> 0, nextId |-> 1, ops |-> 0,
   latest |-> [u \in PrefUsers |-> [t \in PrefTracks |-> "none"]],
   query |-> NoQuery]

\* concurrent playlists.addTrack calls, the playlists and the catalog ids
\* (soundcloudId) they are called with
Adders == {1, 2}
PlaylistIds == {1, 2}
SoundcloudIds == {1, 2}

\* served: calls this slot has started; above: the insert succeeded at a
\* position greater than every position the playlist had at that moment
IdleAdder ==
  [pc |-> "idle", playlistId |-> 0, soundcloudId |-> 0, trackId |-> 0,
   nextPosition |-> 0, outcome |-> "none", above |-> FALSE, served |-> 0]

InitTables ==
  /\ trackPreferences = {}
  /\ prefSession = NoSession
  /\ playlistTracks = {}
  /\ adders = [a \in Adders |-> IdleAdder]
  /\ trackRows = {}

\* no function is called on its own
NoCalc == [fn |-> "none", pc |-> "idle"]

\* nothing has been called
InitIdle ==
  /\ homeFeedCache = [u \in Users |-> NoEntry]
  /\ now = 0
  /\ inv = [i \in Slots |-> IdleInv]
  /\ calls = 0
  /\ InitRequest
  /\ InitTables

InitState ==
  /\ InitIdle
  /\ calc = NoCalc

\* one invocation at a time, for either user
Init ==
  /\ InitState
  /\ scope = [slots |-> {1}, users |-> {1, 2}, forces |-> BOOLEAN,
              pinned |-> FALSE, maxCalls |-> MaxCalls, maxTicks |-> MaxTicks]

\* overlapping invocations for one user, none of them forced
InitRace ==
  /\ InitState
  /\ scope = [slots |-> Slots, users |-> {1}, forces |-> {FALSE},
              pinned |-> FALSE, maxCalls |-> RaceCalls, maxTicks |-> RaceTicks]

\* overlapping invocations for different users, none of them forced: slot u
\* runs the calls of user u
InitUsers ==
  /\ InitState
  /\ scope = [slots |-> Slots, users |-> {1, 2}, forces |-> {FALSE},
              pinned |-> TRUE, maxCalls |-> RaceCalls, maxTicks |-> MaxTicks]

\* one invocation at a time for user 3, whose taste data gives three seeds,
\* three genres and two artists
InitRich ==
  /\ InitState
  /\ scope = [slots |-> {1}, users |-> {3}, forces |-> {FALSE},
              pinned |-> FALSE, maxCalls |-> RichCalls, maxTicks |-> RaceTicks]

\* ------------------------------------------------------- generateHomeFeed
pushPlaylist_noUsed(st, p) ==
  IF Len(p.tracks) < MinPlaylistTracks THEN st
  ELSE [st EXCEPT !.playlists = Append(@, p)]
\* if (p.tracks.length < 12) return; playlists.push(p); usedGlobal.add(...)
pushPlaylist(st, p) ==
  IF Len(p.tracks) < MinPlaylistTracks THEN st
  ELSE [st EXCEPT !.playlists = Append(@, p),
                  !.usedGlobal = @ \cup Ids(p.tracks)]

SeedUsedGlobal_empty(previouslyShown) == {}
\* const usedGlobal = new Set(); for (const id of previouslyShown) usedGlobal.add(id)
SeedUsedGlobal(previouslyShown) == previouslyShown

\* a resolved catalog call's tracks; a call that threw yields none (catch)
Tracks(outcome) == IF outcome = Throw THEN <<>> ELSE outcome

\* the invocation once it has returned `list`
Returned(st, list, path, until) ==
  [IdleInv EXCEPT !.pc = "done", !.userId = st.userId,
                  !.forceRefresh = st.forceRefresh,
                  !.previouslyShown = st.previouslyShown,
                  !.result = list, !.outcome = "returned", !.path = path,
                  !.reads = st.reads, !.calls = st.calls, !.issued = st.issued,
                  !.earlier = st.earlier,
                  !.threw = st.threw, !.answered = st.answered,
                  !.until = until, !.intact = until > 0,
                  !.after = st.after, !.afterIntact = st.afterIntact]

\* the invocation once an exception has left it
Thrown(st) ==
  [Returned(st, <<>>, "failed", 0) EXCEPT !.outcome = "thrown"]

\* a catalog call
Call(fn, arg) == [fn |-> fn, arg |-> arg]

\* the invocation issues searchTracks(q, _)
Search(st, q) ==
  [st EXCEPT !.calls = @ + 1, !.issued = Append(@, Call("searchTracks", q)),
             !.outstanding = @ + 1]

Settled_keep(st) == st
\* the catalog call the invocation awaits has settled
Settled(st) == [st EXCEPT !.outstanding = @ - 1]

FallbackLoop_five(st) ==
  IF Len(st.playlists) < MaxPlaylists /\ st.idx < Len(genreFallbacks)
  THEN Search([st EXCEPT !.pc = "fallbacks"], genreFallbacks[st.idx + 1])
  ELSE [st EXCEPT !.pc = "store"]
\* step 7, `while (playlists.length < 4 && fallbackIndex < genreFallbacks.length)`:
\* the invocation at its next await, or at the cache write ("store")
FallbackLoop(st) ==
  IF Len(st.playlists) < MinPlaylists /\ st.idx < Len(genreFallbacks)
  THEN Search([st EXCEPT !.pc = "fallbacks"], genreFallbacks[st.idx + 1])
  ELSE [st EXCEPT !.pc = "store"]

\* step 6, `for (const a of selectedArtists) { if (playlists.length >= 5) break;`
ArtistLoop(st) ==
  IF st.idx <= Len(st.selectedArtists) /\ Len(st.playlists) < MaxPlaylists
  THEN Search([st EXCEPT !.pc = "artists"], st.selectedArtists[st.idx])
  ELSE FallbackLoop([st EXCEPT !.idx = 0])

GenreLoop_noBreak(st) ==
  IF st.idx <= Len(st.selectedGenres)
  THEN Search([st EXCEPT !.pc = "genres"], st.selectedGenres[st.idx])
  ELSE ArtistLoop([st EXCEPT !.idx = 1])
\* step 5, `for (const g of selectedGenres) { if (playlists.length >= 5) break;`
GenreLoop(st) ==
  IF st.idx <= Len(st.selectedGenres) /\ Len(st.playlists) < MaxPlaylists
  THEN Search([st EXCEPT !.pc = "genres"], st.selectedGenres[st.idx])
  ELSE ArtistLoop([st EXCEPT !.idx = 1])

\* `for (const { seed, related } of relatedLists)`, from the k-th seed on
RECURSIVE seedLoop(_, _, _)
seedLoop(st, related, k) ==
  IF k > Len(st.seeds) THEN st
  ELSE seedLoop(
         pushPlaylist(st,
           Playlist(PlaylistId("seed", st.seeds[k].reason, st.seeds[k].soundcloudId, ""),
                    filterAndDedupeTracks(related[k], st.usedGlobal, st.dislikedIds, 2, 30))),
         related, k + 1)

\* a catalog call of the invocation has rejected / has resolved
Rejected(st) == [st EXCEPT !.threw = TRUE]
Resolved(st) == [st EXCEPT !.answered = TRUE]

StageCatch_break(st, next) == Rejected([st EXCEPT !.pc = "store"])
StageCatch_rethrow(st, next) ==
  Rejected(Search([st EXCEPT !.pc = "lastResort"], "Top 50"))
\* `} catch { // ignore }` around the body of a genre, artist or fallback
\* iteration that began in st: the loop goes on (next) with nothing pushed
StageCatch(st, next) == Rejected(next)

\* ------------------------------------------- bookkeeping of TTL windows
\* a forceRefresh call for u begins or ends: no call for u that began before
\* it and none that begins after it are calls with no forceRefresh in between
ForceSeen(invf, u) ==
  [j \in Slots |->
     IF invf[j].userId # u THEN invf[j]
     ELSE IF invf[j].pc = "done" THEN [invf[j] EXCEPT !.until = 0, !.intact = FALSE]
     ELSE [invf[j] EXCEPT !.after = {}, !.afterIntact = {}]]

\* invocation i has stored a new entry for u
WriteSeen(invf, i, u) ==
  [j \in Slots |->
     IF j # i /\ invf[j].userId = u /\ invf[j].pc = "done"
     THEN [invf[j] EXCEPT !.intact = FALSE] ELSE invf[j]]

\* slot i is taken by a new call: it no longer holds the call others followed
SlotReused(invf, i) ==
  [j \in Slots |-> [invf[j] EXCEPT !.after = @ \ {i}, !.afterIntact = @ \ {i}]]

\* the finished non-forced calls for u whose TTL window is open
InWindow(u, forceRefresh) ==
  IF forceRefresh THEN {}
  ELSE {j \in Slots : /\ inv[j].pc = "done" /\ inv[j].userId = u
                       /\ ~inv[j].forceRefresh /\ now < inv[j].until}

\* what the regeneration `prior` excluded, if it ran for u on the normal
\* path and the entry `cached` holds its list
ExcludedBefore(prior, u, cached) ==
  IF /\ prior.pc = "done" /\ prior.userId = u /\ prior.path = "normal"
     /\ cached.present /\ cached.data = prior.result
  THEN prior.previouslyShown ELSE {}

\* ---------------------------------------------------------------- actions
StoreAndReturn_accumulate(i, st, list, path) ==
  LET u == st.userId
      entry == [CacheEntry(now, list) EXCEPT !.shownTrackIds = @ \cup st.previouslyShown]
      stored == WriteSeen([inv EXCEPT ![i] = Returned(st, list, path, entry.expires)],
                          i, u)
  IN /\ homeFeedCache' = [homeFeedCache EXCEPT ![u] = entry]
     /\ inv' = IF st.forceRefresh THEN ForceSeen(stored, u) ELSE stored
StoreAndReturn_allUsers(i, st, list, path) ==
  LET u == st.userId
      entry == CacheEntry(now, list)
      stored == WriteSeen([inv EXCEPT ![i] = Returned(st, list, path, entry.expires)],
                          i, u)
  IN /\ homeFeedCache' = [v \in Users |-> entry]
     /\ inv' = IF st.forceRefresh THEN ForceSeen(stored, u) ELSE stored
\* homeFeedCache.set(userId, {...}); return list
StoreAndReturn(i, st, list, path) ==
  LET u == st.userId
      entry == CacheEntry(now, list)
      stored == WriteSeen([inv EXCEPT ![i] = Returned(st, list, path, entry.expires)],
                          i, u)
  IN /\ homeFeedCache' = [homeFeedCache EXCEPT ![u] = entry]
     /\ inv' = IF st.forceRefresh THEN ForceSeen(stored, u) ELSE stored

Resume_skipEmpty(i, st) ==
  IF st.pc = "store" /\ st.playlists # <<>>
  THEN StoreAndReturn(i, st, st.playlists, "normal")
  ELSE /\ inv' = [inv EXCEPT ![i] =
                    IF st.pc = "store" THEN Returned(st, <<>>, "normal", 0) ELSE st]
       /\ UNCHANGED homeFeedCache
\* run the invocation on from `st` to its next await or to its return
Resume(i, st) ==
  IF st.pc = "store"
  THEN StoreAndReturn(i, st, st.playlists, "normal")
  ELSE /\ inv' = [inv EXCEPT ![i] = st]
       /\ UNCHANGED homeFeedCache

\* lines 142-156: the call, up to the cache hit or the await of the reads
Start(i, u, forceRefresh) ==
  /\ inv[i].pc \in {"idle", "done"}
  /\ scope.pinned => i = u
  /\ calls < scope.maxCalls
  /\ calls' = calls + 1
  /\ LET cached == homeFeedCache[u]
         follows == InWindow(u, forceRefresh) \ {i}
         st == [IdleInv EXCEPT !.userId = u, !.forceRefresh = forceRefresh,
                               !.earlier = ExcludedBefore(inv[i], u, cached),
                               !.after = follows,
                               !.afterIntact = {j \in follows : inv[j].intact}]
         seen == IF forceRefresh THEN ForceSeen(SlotReused(inv, i), u)
                 ELSE SlotReused(inv, i)
     IN IF CacheHit(cached, forceRefresh, now)
        THEN /\ inv' = [seen EXCEPT ![i] = Returned(st, cached.data, "hit", cached.expires)]
             /\ homeFeedCache' = CacheAfterHit(homeFeedCache, u, now)
        ELSE /\ inv' = [seen EXCEPT ![i] =
                          [st EXCEPT !.pc = "reads",
                                     !.previouslyShown = PreviouslyShown(cached),
                                     !.reads = 3, !.readsOut = 3]]
             /\ UNCHANGED homeFeedCache
  /\ UNCHANGED <<now, scope, others>>

\* lines 152-271: the reads resolve; profile, selection, and the related-tracks
\* calls of all seeds are issued
ReadsOk(i) ==
  /\ inv[i].pc = "reads"
  /\ \E sel \in Selections(TasteOf(inv[i].userId)) :
       inv' = [inv EXCEPT ![i] =
                 [@ EXCEPT !.pc = "seeds",
                           !.dislikedIds = sel.dislikedIds,
                           !.seeds = sel.seeds,
                           !.selectedGenres = sel.selectedGenres,
                           !.selectedArtists = sel.selectedArtists,
                           !.playlists = <<>>,
                           !.usedGlobal = SeedUsedGlobal(inv[i].previouslyShown),
                           !.readsOut = 0,
                           !.calls = @ + Len(sel.seeds),
                           !.issued = [k \in 1..Len(sel.seeds) |->
                                         Call("getRelatedTracks", sel.seeds[k].soundcloudId)],
                           !.outstanding = Len(sel.seeds)]]
  /\ UNCHANGED <<homeFeedCache, now, calls, scope, others>>

\* lines 388-391: a read rejects, which rejects the Promise.all whatever the
\* other reads (pending of them not yet settled) do; the catch issues the
\* "Top 50" search
ReadsFail(i) ==
  /\ inv[i].pc = "reads"
  /\ \E pending \in 0..2 :
       inv' = [inv EXCEPT ![i] =
                 Search([@ EXCEPT !.pc = "lastResort", !.readsOut = pending], "Top 50")]
  /\ UNCHANGED <<homeFeedCache, now, calls, scope, others>>

\* lines 262-299: all related-tracks calls have settled
SeedsDone(i) ==
  /\ inv[i].pc = "seeds"
  /\ \E rs \in {f \in [1..Len(inv[i].seeds) ->
                         UNION {RelatedOutcomes(inv[i].seeds[k].soundcloudId) :
                                  k \in 1..Len(inv[i].seeds)}] :
                   \A k \in DOMAIN f :
                     f[k] \in RelatedOutcomes(inv[i].seeds[k].soundcloudId)} :
       LET related == [k \in 1..Len(rs) |-> Tracks(rs[k])]
           st == [inv[i] EXCEPT
                    !.outstanding = 0,
                    !.threw = \E k \in DOMAIN rs : rs[k] = Throw,
                    !.answered = \E k \in DOMAIN rs : rs[k] # Throw]
       IN Resume(i, GenreLoop([seedLoop(st, related, 1) EXCEPT !.idx = 1]))
  /\ UNCHANGED <<now, calls, scope, others>>

\* lines 299-316: the genre search settles
GenreDone(i) ==
  /\ inv[i].pc = "genres"
  /\ \E r \in SearchOutcomes(inv[i].selectedGenres[inv[i].idx]) :
       LET st == Settled(inv[i])
           g == st.selectedGenres[st.idx]
           st1 == pushPlaylist(Resolved(st),
                    Playlist(PlaylistId("genre", "", 0, g),
                             filterAndDedupeTracks(r, st.usedGlobal, st.dislikedIds, 2, 30)))
       IN IF r = Throw
          THEN Resume(i, StageCatch(st, GenreLoop([st EXCEPT !.idx = @ + 1])))
          ELSE Resume(i, GenreLoop([st1 EXCEPT !.idx = @ + 1]))
  /\ UNCHANGED <<now, calls, scope, others>>

\* lines 322-339: the artist search settles
ArtistDone(i) ==
  /\ inv[i].pc = "artists"
  /\ \E r \in SearchOutcomes(inv[i].selectedArtists[inv[i].idx]) :
       LET st == Settled(inv[i])
           a == st.selectedArtists[st.idx]
           st1 == pushPlaylist(Resolved(st),
                    Playlist(PlaylistId("artist", "", 0, a),
                             filterAndDedupeTracks(r, st.usedGlobal, st.dislikedIds, 3, 25)))
       IN IF r = Throw
          THEN Resume(i, StageCatch(st, ArtistLoop([st EXCEPT !.idx = @ + 1])))
          ELSE Resume(i, ArtistLoop([st1 EXCEPT !.idx = @ + 1]))
  /\ UNCHANGED <<now, calls, scope, others>>

\* lines 354-387: the fallback-genre search settles
FallbackDone(i) ==
  /\ inv[i].pc = "fallbacks"
  /\ \E r \in SearchOutcomes(genreFallbacks[inv[i].idx + 1]) :
       LET st == Settled(inv[i])
           f == genreFallbacks[st.idx + 1]
           st1 == pushPlaylist(Resolved(st),
                    Playlist(PlaylistId("fallback-genre", "", 0, f),
                             filterAndDedupeTracks(r, st.usedGlobal, st.dislikedIds, 2, 30)))
       IN IF r = Throw
          THEN Resume(i, StageCatch(st, FallbackLoop([st EXCEPT !.idx = @ + 1])))
          ELSE Resume(i, FallbackLoop([st1 EXCEPT !.idx = @ + 1]))
  /\ UNCHANGED <<now, calls, scope, others>>

LastResortCatch_rethrow(st) == Thrown(st)
\* lines 407-409: catch { return []; }
LastResortCatch(st) == Returned(st, <<>>, "failed", 0)

\* lines 391-409: the "Top 50" search settles
LastResortDone(i) ==
  /\ inv[i].pc = "lastResort"
  /\ \E r \in SearchOutcomes("Top 50") :
       IF r = Throw
       THEN /\ inv' = IF inv[i].forceRefresh
                      THEN ForceSeen([inv EXCEPT ![i] = LastResortCatch(Rejected(inv[i]))],
                                     inv[i].userId)
                      ELSE [inv EXCEPT ![i] = LastResortCatch(Rejected(inv[i]))]
            /\ UNCHANGED homeFeedCache
       ELSE LET safe == filterAndDedupeTracks(r, {}, {}, 2, 30)
            IN StoreAndReturn(i, Resolved(inv[i]),
                              <<Playlist(PlaylistId("fallback", "", 0, ""), safe)>>,
                              "lastResort")
  /\ UNCHANGED <<now, calls, scope, others>>

\* time passes
Tick ==
  /\ now < scope.maxTicks * TickMs
  /\ now' = now + TickMs
  /\ UNCHANGED <<homeFeedCache, inv, calls, scope, others>>

Next ==
  \/ \E i \in scope.slots, u \in scope.users, f \in scope.forces : Start(i, u, f)
  \/ \E i \in scope.slots : ReadsOk(i)
  \/ \E i \in scope.slots : ReadsFail(i)
  \/ \E i \in scope.slots : SeedsDone(i)
  \/ \E i \in scope.slots : GenreDone(i)
  \/ \E i \in scope.slots : ArtistDone(i)
  \/ \E i \in scope.slots : FallbackDone(i)
  \/ \E i \in scope.slots : LastResortDone(i)
  \/ Tick

Spec == Init /\ [][Next]_vars

SpecRace == InitRace /\ [][Next]_vars

SpecUsers == InitUsers /\ [][Next]_vars

SpecRich == InitRich /\ [][Next]_vars

\* ==================================================== the catalog client
\* (soundcloud.ts: withRetry, searchTracks, getRelatedTracks)
Retries == 2

\* items of a response's collection: a track, a track wrapped in a `track`
\* field (inner # 0), something that is not a track
Item(kind, id, inner) == [kind |-> kind, id |-> id, inner |-> inner]
Items == {Item("track", 1, 0), Item("track", 2, 0),
          Item("track-repost", 8, 3), Item("user", 9, 0)}

\* response.data.collection of a resolved request; NoCollection: the field
\* is missing
NoCollection == <<Item("none", 0, 0)>>
Collections ==
  {<<>>} \cup {<<a>> : a \in Items} \cup {<<a, b>> : a \in Items, b \in Items}
Responses == Collections \cup {NoCollection}
Failed == <<Item("error", 0, 0)>>

\* const t = track.track || track; return { id: t.id, ... }
mapTrackV2(item) == IF item.inner # 0 THEN item.inner ELSE item.id

IsTrack(item) == item.kind = "track"

\* `response.data.collection || []`, then for searchTracks
\* `.filter(item => item.kind === 'track').map(mapTrackV2)` and for
\* getRelatedTracks `.map(mapTrackV2)`
TracksOf(fn, response) ==
  LET collection == IF response = NoCollection THEN <<>> ELSE response
      kept == IF fn = "searchTracks" THEN SelectSeq(collection, IsTrack)
              ELSE collection
  IN [k \in 1..Len(kept) |-> mapTrackV2(kept[k])]

ClientCatch_rethrow(req) ==
  [req EXCEPT !.pc = "done", !.outcome = "thrown", !.result = <<>>]
\* catch (error) { console.error(...); return []; }
ClientCatch(req) ==
  [req EXCEPT !.pc = "done", !.outcome = "returned", !.result = <<>>]

RetryLoop_once(req) == ClientCatch(req)
\* withRetry after the attempt of iteration req.i has rejected: `i++`, then
\* the next `await fn()` or, the loop being over, `throw lastError` into the
\* caller's catch
RetryLoop(req) ==
  IF req.i + 1 < Retries
  THEN [req EXCEPT !.i = @ + 1, !.attempts = @ + 1]
  ELSE ClientCatch([req EXCEPT !.i = @ + 1])

\* searchTracks(..) or getRelatedTracks(..) is called: the first request
CallClient(fn) ==
  /\ request.pc \in {"idle", "done"}
  /\ request.served < MaxRequests
  /\ request' = [NoRequest EXCEPT !.pc = "attempt", !.fn = fn, !.attempts = 1,
                                  !.served = request.served + 1]
  /\ UNCHANGED <<feedVars, calc, trackPreferences, prefSession, playlistTracks, adders, trackRows>>

\* the request of the current attempt resolves: withRetry returns it
AttemptResolves(response) ==
  /\ request.pc = "attempt"
  /\ request' = [request EXCEPT !.pc = "done", !.outcome = "returned",
                                !.log = Append(@, response),
                                !.result = TracksOf(request.fn, response)]
  /\ UNCHANGED <<feedVars, calc, trackPreferences, prefSession, playlistTracks, adders, trackRows>>

\* the request of the current attempt rejects
AttemptRejects ==
  /\ request.pc = "attempt"
  /\ request' = RetryLoop([request EXCEPT !.log = Append(@, Failed)])
  /\ UNCHANGED <<feedVars, calc, trackPreferences, prefSession, playlistTracks, adders, trackRows>>

NextClient ==
  \/ \E fn \in {"searchTracks", "getRelatedTracks"} : CallClient(fn)
  \/ \E response \in Responses : AttemptResolves(response)
  \/ AttemptRejects

InitClient ==
  /\ InitState
  /\ scope = [slots |-> {}, users |-> {}, forces |-> {}, pinned |-> FALSE,
              maxCalls |-> 0, maxTicks |-> 0]

SpecClient == InitClient /\ [][NextClient]_vars

\* ============================================== the table track_preferences
\* (db.ts: setTrackPreference, removeTrackPreference, getUserLikedTracks)
RowsOf(rows, u, t) == {r \in rows : r.userId = u /\ r.trackId = t}

Upsert_insertAlways(rows, u, t, p, at, id) ==
  rows \cup {[id |-> id, userId |-> u, trackId |-> t, preference |-> p,
              createdAt |-> at, updatedAt |-> at]}
\* INSERT ... VALUES (userId, trackId, preference) ON DUPLICATE KEY UPDATE
\* preference = .., updatedAt = .. under UNIQUE(userId, trackId)
Upsert(rows, u, t, p, at, id) ==
  IF RowsOf(rows, u, t) = {}
  THEN rows \cup {[id |-> id, userId |-> u, trackId |-> t, preference |-> p,
                   createdAt |-> at, updatedAt |-> at]}
  ELSE {IF r \in RowsOf(rows, u, t)
        THEN [r EXCEPT !.preference = p, !.updatedAt = at] ELSE r : r \in rows}

\* DELETE ... WHERE userId = u AND trackId = t
Delete(rows, u, t) == rows \ RowsOf(rows, u, t)

\* WHERE userId = u AND preference = 'like' (every trackId has its row in
\* tracks: upsertTrack precedes every set, and tracks are never deleted)
LikeRows(rows, u) == {r \in rows : r.userId = u /\ r.preference = "like"}

\* ORDER BY createdAt DESC: the orders the database may produce (rows of the
\* same second come in any order)
OrderedByCreatedAtDesc(rs) ==
  {q \in [1..Cardinality(rs) -> rs] :
     /\ \A a, b \in DOMAIN q : a # b => q[a] # q[b]
     /\ \A a, b \in DOMAIN q : a < b => q[a].createdAt >= q[b].createdAt}

\* .limit(limit), then result.map(r => r.track)
LikedTracksResults(rows, u, limit) ==
  {[k \in 1..Min(limit, Len(q)) |-> q[k].trackId] :
     q \in OrderedByCreatedAtDesc(LikeRows(rows, u))}

\* preferences.setPreference, after its upsertTrack: dt seconds after the
\* operation before it
setTrackPreference(u, t, p, dt) ==
  /\ prefSession.ops < MaxPrefOps
  /\ LET at == prefSession.clock + dt IN
     /\ trackPreferences' = Upsert(trackPreferences, u, t, p, at, prefSession.nextId)
     /\ prefSession' = [prefSession EXCEPT !.clock = at, !.nextId = @ + 1,
                                           !.ops = @ + 1, !.latest[u][t] = p]
  /\ UNCHANGED <<feedVars, calc, request, playlistTracks, adders, trackRows>>

\* preferences.removePreference of a track that exists
removeTrackPreference(u, t) ==
  /\ prefSession.ops < MaxPrefOps
  /\ trackPreferences' = Delete(trackPreferences, u, t)
  /\ prefSession' = [prefSession EXCEPT !.ops = @ + 1, !.latest[u][t] = "none"]
  /\ UNCHANGED <<feedVars, calc, request, playlistTracks, adders, trackRows>>

\* preferences.getLikedTracks({ limit })
getUserLikedTracks(u, limit) ==
  /\ \E result \in LikedTracksResults(trackPreferences, u, limit) :
       prefSession' = [prefSession EXCEPT
                         !.query = [userId |-> u, limit |-> limit, result |-> result]]
  /\ UNCHANGED <<feedVars, calc, request, trackPreferences, playlistTracks, adders, trackRows>>

NextPrefs ==
  \/ \E u \in PrefUsers, t \in PrefTracks, p \in {"like", "dislike"}, dt \in {0, 1} :
       setTrackPreference(u, t, p, dt)
  \/ \E u \in PrefUsers, t \in PrefTracks : removeTrackPreference(u, t)
  \/ \E u \in PrefUsers, limit \in 1..MaxLimit : getUserLikedTracks(u, limit)

SpecPrefs == InitClient /\ [][NextPrefs]_vars

\* ================================= the tables tracks and playlist_tracks
\* (routers.ts: playlists.addTrack, playlists.removeTrack; db.ts: upsertTrack,
\* addTrackToPlaylist, removeTrackFromPlaylist)
PositionsOf(rows, p) == {r.position : r \in {x \in rows : x.playlistId = p}}

\* MAX(position) of the playlist's rows, NULL (here -1, as `?? -1` makes it)
\* when it has none
MaxPosition(rows, p) ==
  IF PositionsOf(rows, p) = {} THEN -1
  ELSE CHOOSE m \in PositionsOf(rows, p) : \A q \in PositionsOf(rows, p) : q <= m

\* const nextPosition = (maxPosition[0]?.max ?? -1) + 1
NextPosition(rows, p) == MaxPosition(rows, p) + 1

AddsStarted == adders[1].served + adders[2].served

\* the mutation is entered: getPlaylistById and the owner check
addTrack(a, p, sc, owner) ==
  /\ adders[a].pc = "idle"
  /\ AddsStarted < MaxAdds
  /\ adders' = [adders EXCEPT ![a] =
       [IdleAdder EXCEPT !.pc = IF owner THEN "upsertTrack" ELSE "done",
                         !.outcome = IF owner THEN "none" ELSE "Unauthorized",
                         !.playlistId = p, !.soundcloudId = sc,
                         !.served = adders[a].served + 1]]
  /\ UNCHANGED <<feedVars, calc, request, trackPreferences, prefSession, playlistTracks, trackRows>>

\* upsertTrack: the select by soundcloudId answers
upsertTrack_select(a) ==
  /\ adders[a].pc = "upsertTrack"
  /\ LET existing == {r \in trackRows : r.soundcloudId = adders[a].soundcloudId} IN
       adders' = [adders EXCEPT ![a] =
         IF existing # {}
         THEN [@ EXCEPT !.pc = "maxPosition", !.trackId = (CHOOSE r \in existing : TRUE).id]
         ELSE [@ EXCEPT !.pc = "insertTrack"]]
  /\ UNCHANGED <<feedVars, calc, request, trackPreferences, prefSession, playlistTracks, trackRows>>

\* upsertTrack: the insert into tracks (soundcloudId is UNIQUE) answers, and
\* the select by the inserted id after it
upsertTrack_insert(a) ==
  /\ adders[a].pc = "insertTrack"
  /\ IF \E r \in trackRows : r.soundcloudId = adders[a].soundcloudId
     THEN /\ adders' = [adders EXCEPT ![a].pc = "done", ![a].outcome = "Duplicate entry"]
          /\ UNCHANGED trackRows
     ELSE LET insertId == Cardinality(trackRows) + 1 IN
          /\ trackRows' = trackRows \cup {[id |-> insertId, soundcloudId |-> adders[a].soundcloudId]}
          /\ adders' = [adders EXCEPT ![a].pc = "maxPosition", ![a].trackId = insertId]
  /\ UNCHANGED <<feedVars, calc, request, trackPreferences, prefSession, playlistTracks>>

\* addTrackToPlaylist: the SELECT MAX(position) answers
addTrackToPlaylist_max(a) ==
  /\ adders[a].pc = "maxPosition"
  /\ adders' = [adders EXCEPT ![a].pc = "insertPosition",
                              ![a].nextPosition = NextPosition(playlistTracks, adders[a].playlistId)]
  /\ UNCHANGED <<feedVars, calc, request, trackPreferences, prefSession, playlistTracks, trackRows>>

\* addTrackToPlaylist: the insert answers ((playlistId, position) is UNIQUE);
\* the mutation returns { success: true } after it
addTrackToPlaylist_insert(a) ==
  /\ adders[a].pc = "insertPosition"
  /\ LET st == adders[a] IN
     IF st.nextPosition \in PositionsOf(playlistTracks, st.playlistId)
     THEN /\ adders' = [adders EXCEPT ![a].pc = "done", ![a].outcome = "Duplicate entry"]
          /\ UNCHANGED playlistTracks
     ELSE /\ playlistTracks' = playlistTracks \cup
               {[playlistId |-> st.playlistId, trackId |-> st.trackId,
                 position |-> st.nextPosition]}
          /\ adders' = [adders EXCEPT ![a].pc = "done", ![a].outcome = "success",
                           ![a].above = \A q \in PositionsOf(playlistTracks, st.playlistId) :
                                          q < st.nextPosition]
  /\ UNCHANGED <<feedVars, calc, request, trackPreferences, prefSession, trackRows>>

\* the caller has the answer; the slot takes the next call
addTrackSettled(a) ==
  /\ adders[a].pc = "done"
  /\ AddsStarted < MaxAdds
  /\ adders' = [adders EXCEPT ![a] = [IdleAdder EXCEPT !.served = adders[a].served]]
  /\ UNCHANGED <<feedVars, calc, request, trackPreferences, prefSession, playlistTracks, trackRows>>

\* playlists.removeTrack by the owner, of a track the playlist holds
removeTrackFromPlaylist(p, t) ==
  /\ \E r \in playlistTracks : r.playlistId = p /\ r.trackId = t
  /\ playlistTracks' = {r \in playlistTracks : ~(r.playlistId = p /\ r.trackId = t)}
  /\ UNCHANGED <<feedVars, calc, request, trackPreferences, prefSession, adders, trackRows>>

NextPlaylists ==
  \/ \E a \in Adders, p \in PlaylistIds, sc \in SoundcloudIds, owner \in BOOLEAN :
       addTrack(a, p, sc, owner)
  \/ \E a \in Adders : upsertTrack_select(a)
  \/ \E a \in Adders : upsertTrack_insert(a)
  \/ \E a \in Adders : addTrackToPlaylist_max(a)
  \/ \E a \in Adders : addTrackToPlaylist_insert(a)
  \/ \E a \in Adders : addTrackSettled(a)
  \/ \E p \in PlaylistIds, t \in {r.id : r \in trackRows} : removeTrackFromPlaylist(p, t)

SpecPlaylists == InitClient /\ [][NextPlaylists]_vars

\* ========================================== the functions on their own
\* the catalog tracks the filter is called with: three of one artist, one of
\* another, one without username, one of the artist "unknown", one with no
\* numeric id
FilterTracks == {NoId, 1, 2, 3, 4, 40, 43}

SeqsUpTo(S, n) == UNION {[1..k -> S] : k \in 0..n}

\* the calls filterAndDedupeTracks({ tracks, excludeIds, dislikedIds,
\* maxPerArtist, limit })
FilterCalls ==
  {[fn |-> "filterAndDedupeTracks", pc |-> "called", tracks |-> tracks,
    excludeIds |-> excludeIds, dislikedIds |-> dislikedIds,
    maxPerArtist |-> maxPerArtist, limit |-> limit, out |-> <<>>] :
     tracks \in SeqsUpTo(FilterTracks, MaxLen), excludeIds \in SUBSET {1, 4},
     dislikedIds \in SUBSET {2}, maxPerArtist \in {1, 2}, limit \in {0, 2, MaxLen}}

\* the filter runs and returns
FilterReturns ==
  /\ calc.fn = "filterAndDedupeTracks" /\ calc.pc = "called"
  /\ calc' = [calc EXCEPT !.pc = "returned",
                          !.out = filterAndDedupeTracks(calc.tracks, calc.excludeIds,
                                    calc.dislikedIds, calc.maxPerArtist, calc.limit)]
  /\ UNCHANGED <<feedVars, request, trackPreferences, prefSession, playlistTracks,
                 adders, trackRows>>

\* the calls weightedRandomSelect(candidates, count): the candidates are
\* distinct objects with a score, as lines 207-214 and 237-239 build them, so
\* a candidate is known by its index
SamplerCalls ==
  {[fn |-> "weightedRandomSelect", pc |-> "called", what |-> "candidates",
    taste |-> TasteOf(2), candidates |-> candidates,
    count |-> count, i |-> 0, selected |-> <<>>, used |-> {}, out |-> <<>>] :
     candidates \in SeqsUpTo({[score |-> sc] : sc \in 0..2}, MaxLen),
     count \in 0..MaxLen}

\* rows of getUserListeningHistory, most recent first: seven genres, six
\* artists, plays of disliked tracks (2, 26), of a track with no numeric id,
\* equal scores and a zero score
HistoryLog ==
  <<Hist("120", "Blues", "Etta", 500), Hist("3", "Rock", "Muse", 900),
    Hist("26", "Pop", "Abba", 800), Hist("101", "Jazz", "Ella", 500),
    Hist("3", "Soul", "Otis", 0), Hist("n/a", "Folk", "Joan", 700),
    Hist("120", "Funk", "", 300), Hist("2", "Rock", "Muse", 950),
    Hist("101", " Rock", "Muse", 400), Hist("3", "Jazz", "Ella", 500),
    Hist("120", "Blues", "Etta", 100), Hist("26px", "Pop", "Abba", 600),
    Hist("3", "Rock", "Muse", 200), Hist("101", "Soul", "Otis", 650)>>

\* what the three persistence reads return for a user with two likes, a
\* dislike and the n most recent plays of the log
TasteLog(n) ==
  [prefs |-> <<Pref("101", "Jazz", "Ella", "like", 1000),
               Pref("26", "Pop", "", "dislike", 900),
               Pref("120", "Blues", "Etta", "like", 100)>>,
   history |-> Slice(HistoryLog, n),
   disliked |-> <<"26", "2">>]

\* lines 184-246: the three sampler calls of a generation, for the genres,
\* the artists and the seeds of a taste profile
SelectionCalls ==
  {LET taste == TasteLog(n)
       allGenres == Ranked(taste.prefs, taste.history, "genre")
       allArtists == Ranked(taste.prefs, taste.history, "artist")
       valid == validCandidates(taste.prefs, taste.history,
                                DislikedIdSet(taste.disliked))
       candidates ==
         CASE what = "genres" -> Slice(allGenres, Min(5, Len(allGenres)))
           [] what = "artists" -> Slice(allArtists, Min(4, Len(allArtists)))
           [] what = "seeds" -> valid
       count ==
         CASE what = "genres" -> Min(3, Len(allGenres))
           [] what = "artists" -> Min(2, Len(allArtists))
           [] what = "seeds" -> Min(3, Len(valid))
   IN [fn |-> "weightedRandomSelect", pc |-> "called", what |-> what,
       taste |-> taste, candidates |-> candidates, count |-> count,
       i |-> 0, selected |-> <<>>, used |-> {}, out |-> <<>>] :
     n \in 0..MaxHistory, what \in {"genres", "artists", "seeds"}}

RECURSIVE totalScore(_)
totalScore(candidates) ==
  IF candidates = <<>> THEN 0 ELSE Head(candidates).score + totalScore(Tail(candidates))

\* the orders [...candidates].sort(() => Math.random() - 0.5) can leave, as
\* indices of candidates
Shuffles(n) == {f \in [1..n -> 1..n] : \A a, b \in 1..n : a # b => f[a] # f[b]}

\* lines 78-89: the copy, the shuffle of an all-zero list, or the loop
SamplerStarts ==
  /\ calc.fn = "weightedRandomSelect" /\ calc.pc = "called"
  /\ LET n == Len(calc.candidates)
     IN IF n <= calc.count
        THEN calc' = [calc EXCEPT !.pc = "returned", !.out = [k \in 1..n |-> k]]
        ELSE IF totalScore(calc.candidates) = 0
        THEN \E shuffled \in Shuffles(n) :
               calc' = [calc EXCEPT !.pc = "returned",
                                    !.out = SubSeq(shuffled, 1, calc.count)]
        ELSE calc' = [calc EXCEPT !.pc = "loop"]
  /\ UNCHANGED <<feedVars, request, trackPreferences, prefSession, playlistTracks,
                 adders, trackRows>>

\* lines 97-121: the indices one iteration can choose among the available
\* ones: any of them on the random branch or when their scores are all zero,
\* otherwise the ones of positive score, the first (random = 0) and the last
\* (the fallback when rounding leaves the cumulative weight below random)
Chosen(candidates, available, useRandom) ==
  LET avail == [k \in 1..Len(available) |-> candidates[available[k]]]
  IN IF useRandom \/ totalScore(avail) = 0
     THEN {available[j] : j \in DOMAIN available}
     ELSE {available[j] : j \in {m \in DOMAIN available :
                                   \/ candidates[available[m]].score > 0
                                   \/ m = 1
                                   \/ m = Len(available)}}

\* used.add(candidates.indexOf(chosen))
Use_forget(used, idx) == used
Use(used, idx) == used \cup {idx}

\* lines 91-131: one iteration of the loop, or its end and the return
SamplerDraws ==
  /\ calc.fn = "weightedRandomSelect" /\ calc.pc = "loop"
  /\ LET n == Len(calc.candidates)
         IsFree(idx) == idx \notin calc.used
         available == SelectSeq([k \in 1..n |-> k], IsFree)
     IN IF calc.i < calc.count /\ Len(calc.selected) < calc.count /\ available # <<>>
        THEN \E useRandom \in BOOLEAN :
               \E idx \in Chosen(calc.candidates, available, useRandom) :
                 calc' = [calc EXCEPT !.selected = Append(@, idx),
                                      !.used = Use(@, idx),
                                      !.i = @ + 1]
        ELSE calc' = [calc EXCEPT !.pc = "returned", !.out = calc.selected]
  /\ UNCHANGED <<feedVars, request, trackPreferences, prefSession, playlistTracks,
                 adders, trackRows>>

\* Math.exp(-x) for x a whole number of ln 2, as a multiple of 2^-ExpRange:
\* exact and strictly decreasing until it underflows to 0 (a double does
\* after 1075 halvings)
RECURSIVE Pow2(_)
Pow2(n) == IF n = 0 THEN 1 ELSE 2 * Pow2(n - 1)
Exp2(x) == IF x > ExpRange THEN 0 ELSE Pow2(ExpRange - x)

\* timeDecayFactor(date, halfLifeDays) at Date.now() = t: time is counted in
\* ln 2 days and dates are multiples of halfLifeDays, so that the division
\* is exact
timeDecayFactor_noClamp(date, halfLifeDays, t) ==
  Exp2((t - date) \div (IF halfLifeDays < 1 THEN 1 ELSE halfLifeDays))
timeDecayFactor(date, halfLifeDays, t) ==
  LET ageDays == t - date
      hl == IF halfLifeDays < 1 THEN 1 ELSE halfLifeDays
  IN Exp2((IF ageDays < 0 THEN 0 ELSE ageDays) \div hl)

\* two runs of lines 164-218 at the same Date.now(), each over one liked
\* preference; the two records differ only in createdAt
DecayCalls ==
  {[fn |-> "timeDecayFactor", pc |-> "called", at |-> 21 * t,
    recent |-> 21 * recent, older |-> 21 * older, soundcloudId |-> scId,
    genre |-> genre, artist |-> artist, out |-> <<>>] :
     t \in {2, 6}, recent \in 1..MaxDate, older \in 0..MaxDate,
     scId \in {"3", "n/a"}, genre \in {" Rock", ""}, artist \in {"Muse", " "}}

\* what one liked preference adds to the genre scores, the artist scores and
\* the seed candidates
Contribution(createdAt, t, scId, genre, artist) ==
  LET liked == <<Pref(scId, genre, artist, "like", timeDecayFactor(createdAt, 21, t))>>
      ScoreOf(entries) == IF entries = <<>> THEN 0 ELSE entries[1].score
  IN [genre |-> ScoreOf(scoreLiked(<<>>, liked, "genre")),
      artist |-> ScoreOf(scoreLiked(<<>>, liked, "artist")),
      seed |-> ScoreOf(SeedCandidates(liked, <<>>))]

\* both profiles are built
DecayReturns ==
  /\ calc.fn = "timeDecayFactor" /\ calc.pc = "called"
  /\ calc' = [calc EXCEPT
       !.pc = "returned",
       !.out = [recent |-> Contribution(calc.recent, calc.at, calc.soundcloudId,
                                        calc.genre, calc.artist),
                older |-> Contribution(calc.older, calc.at, calc.soundcloudId,
                                       calc.genre, calc.artist)]]
  /\ UNCHANGED <<feedVars, request, trackPreferences, prefSession, playlistTracks,
                 adders, trackRows>>

NextPure ==
  \/ FilterReturns
  \/ SamplerStarts
  \/ SamplerDraws
  \/ DecayReturns

InitPure ==
  /\ InitIdle
  /\ scope = [slots |-> {}, users |-> {}, forces |-> {}, pinned |-> FALSE,
              maxCalls |-> 0, maxTicks |-> 0]
  /\ calc \in FilterCalls \cup SamplerCalls \cup SelectionCalls
             \cup {c \in DecayCalls : c.recent > c.older}

SpecPure == InitPure /\ [][NextPure]_vars

\* ================================================================ properties
Done(i) == inv[i].pc = "done"

\* the tracks of a list of playlists, one after the other
RECURSIVE AllTracks(_)
AllTracks(playlists) ==
  IF playlists = <<>> THEN <<>>
  ELSE Head(playlists).tracks \o AllTracks(Tail(playlists))

NoRepeat(s) == \A a, b \in DOMAIN s : a # b => s[a] # s[b]

\* the user's disliked catalog ids, as the database holds them
DislikedOf(u) == DislikedIdSet(TasteOf(u).disliked)

\* C1: a non-forced call that begins after a non-forced call for the same
\* user returned L, within the TTL window of the cache entry that served that
\* call and with no forceRefresh call in between, returns L.
C1_IdempotentWithinTTL ==
  \A j \in Slots : Done(j) =>
    \A i \in inv[j].after : inv[j].result = inv[i].result

\* what holds of overlapping invocations instead: such a later call returns L
\* whenever the cache entry that served the earlier call is still the stored
\* one when the later call begins, i.e. no invocation that began on a miss
\* has stored an entry for the user since.
SameEntrySameList ==
  \A j \in Slots : Done(j) =>
    \A i \in inv[j].afterIntact : inv[j].result = inv[i].result

\* C2: no track of a returned playlist has an id in the user's disliked-id
\* set, on the normal path and on the last-resort path alike.
C2_NoDislikedTracks ==
  \A i \in Slots : Done(i) =>
    ShownIds(inv[i].result) \cap DislikedOf(inv[i].userId) = {}

\* C3: every playlist of every returned list and of every cache entry has
\* at least 12 tracks.
C3_MinPlaylistSize ==
  /\ \A i \in Slots : Done(i) =>
       \A k \in DOMAIN inv[i].result : Len(inv[i].result[k].tracks) >= 12
  /\ \A u \in Users :
       \A k \in DOMAIN homeFeedCache[u].data :
         Len(homeFeedCache[u].data[k].tracks) >= 12

\* C4: no track id occurs twice in a returned list, within a playlist or
\* across playlists; while a call runs, the ids of its accepted playlists
\* are pairwise distinct and all in usedGlobal, the set later playlists are
\* filtered against.
C4_NoDuplicateTracks ==
  \A i \in Slots :
    /\ NoRepeat(AllTracks(inv[i].result))
    /\ NoRepeat(AllTracks(inv[i].playlists))
    /\ ShownIds(inv[i].playlists) \subseteq inv[i].usedGlobal

C4_Witness ==
  \E i \in Slots : /\ Done(i) /\ Len(inv[i].result) >= 2
                    /\ 12 \in Ids(inv[i].result[2].tracks)
                    /\ 11 \in Ids(inv[i].result[1].tracks)

\* C5 (as claimed): whenever a call regenerates the feed, no returned track
\* has an id in the shownTrackIds of the entry read at the start of the call.
C5_CrossRefreshSuppression ==
  \A i \in Slots : (Done(i) /\ inv[i].path \in {"normal", "lastResort"}) =>
    ShownIds(inv[i].result) \cap inv[i].previouslyShown = {}

\* C5 (amended): the same, for the calls that finish on the normal path (the
\* last-resort fallback filters with an empty exclude set).
C5_SuppressionOnNormalPath ==
  \A i \in Slots : (Done(i) /\ inv[i].path = "normal") =>
    ShownIds(inv[i].result) \cap inv[i].previouslyShown = {}

C5_Witness ==
  \E i \in Slots : /\ Done(i) /\ inv[i].path = "normal"
                    /\ inv[i].previouslyShown # {} /\ inv[i].result # <<>>

\* C6: no invocation ends by throwing; one that has ended has returned a list.
C6_NeverThrows ==
  \A i \in Slots :
    /\ inv[i].outcome # "thrown"
    /\ Done(i) => inv[i].outcome = "returned"

\* a user without preferences or history, every read and catalog call failing
C6_Witness ==
  \E i \in Slots : /\ Done(i) /\ inv[i].userId = 2 /\ inv[i].path = "failed"
                    /\ inv[i].result = <<>>

\* C7: a forceRefresh call never ends as a cache hit and issues the three
\* taste-data reads.
C7_ForceBypassesCache ==
  \A i \in Slots : (inv[i].pc # "idle" /\ inv[i].forceRefresh) =>
    (inv[i].path # "hit" /\ inv[i].reads = 3)

\* a forced call awaiting its reads while the user's entry is not expired
C7_Witness ==
  \E i \in Slots :
    /\ inv[i].pc = "reads" /\ inv[i].forceRefresh
    /\ homeFeedCache[inv[i].userId].present
    /\ homeFeedCache[inv[i].userId].expires > now

\* C8: a call that ends as a cache hit returns the stored playlists, issues
\* no persistence read and no catalog call, and leaves the cache map as it was.
C8_HitIsPureRead ==
  [][calls' = calls + 1 =>
       \A i \in scope.slots : (inv'[i].pc = "done" /\ inv'[i].path = "hit") =>
         /\ homeFeedCache' = homeFeedCache
         /\ inv'[i].reads = 0 /\ inv'[i].calls = 0
         /\ inv'[i].result = homeFeedCache[inv'[i].userId].data]_vars

C8_Witness ==
  \E i \in Slots : /\ Done(i) /\ inv[i].path = "hit" /\ inv[i].result # <<>>
                    /\ \E v \in Users \ {inv[i].userId} : homeFeedCache[v].present

\* the tracks of playlist p whose artist key is a
ByArtist(p, a) == {n \in DOMAIN p.tracks : ArtistKey(p.tracks[n]) = a}

\* C9: in a returned playlist no artist key occurs on more than 3 tracks if
\* the artist stage built it, on more than 2 otherwise.
C9_PerArtistCap ==
  \A i \in Slots : \A k \in DOMAIN inv[i].result :
    LET p == inv[i].result[k] IN
    \A n \in DOMAIN p.tracks :
      Cardinality(ByArtist(p, ArtistKey(p.tracks[n])))
        <= (IF p.id.stage = "artist" THEN 3 ELSE 2)

\* an artist playlist with three tracks of the artists without a name, next
\* to a seed playlist with two tracks of one artist
C9_Witness ==
  \E i \in Slots : \E k, m \in DOMAIN inv[i].result :
    /\ inv[i].result[k].id.stage = "artist"
    /\ Cardinality(ByArtist(inv[i].result[k], UNKNOWN)) = 3
    /\ inv[i].result[m].id.stage = "seed"
    /\ Cardinality(ByArtist(inv[i].result[m], 1)) = 2

\* C10: a stored entry expires 2 minutes after the time of its write; a
\* non-forced call is a cache hit exactly when the user has an entry and the
\* time of the call is before its expiry; the cache changes only by a write.
C10_TTLExpiry ==
  [][/\ \A u \in Users : homeFeedCache'[u] # homeFeedCache[u] =>
          /\ homeFeedCache'[u].present
          /\ homeFeedCache'[u].expires = now + 120000
     /\ calls' = calls + 1 =>
          \A i \in scope.slots : ~inv'[i].forceRefresh =>
            ((inv'[i].pc = "done" /\ inv'[i].path = "hit")
               <=> (/\ homeFeedCache[inv'[i].userId].present
                    /\ now < homeFeedCache[inv'[i].userId].expires))]_vars

\* a non-forced call that began at the very expiry time of the user's entry
\* and is regenerating
C10_Witness ==
  \E i \in Slots :
    /\ inv[i].pc = "reads" /\ ~inv[i].forceRefresh
    /\ homeFeedCache[inv[i].userId].present
    /\ homeFeedCache[inv[i].userId].expires = now

\* the invocation in slot i has read the cache and not yet stored or returned
InFlight(i) == inv[i].pc \notin {"idle", "done"}

\* C11: between an invocation's cache read and its cache write no other
\* invocation for the same user reads or writes the user's entry: no two
\* invocations for one user are ever regenerating at the same time.
C11_SameUserSerialization ==
  \A i, j \in Slots :
    (i # j /\ InFlight(i) /\ InFlight(j)) => inv[i].userId # inv[j].userId

\* C12: with the invocations of different users interleaved (slot u runs the
\* calls of user u), the entry of user u is at every moment what u's own
\* invocations made it: absent before u's first call, the entry u's last
\* finished call stored or was served from, and while a call of u runs, the
\* entry that call read at its start.
C12_DifferentUserIsolation ==
  \A u \in scope.slots :
    /\ inv[u].pc = "idle" => homeFeedCache[u] = NoEntry
    /\ InFlight(u) =>
         inv[u].previouslyShown = PreviouslyShown(homeFeedCache[u])
    /\ (Done(u) /\ inv[u].path # "failed") =>
         /\ inv[u].userId = u
         /\ homeFeedCache[u].present
         /\ homeFeedCache[u].data = inv[u].result
         /\ homeFeedCache[u].shownTrackIds = ShownIds(inv[u].result)

\* both users have a stored entry, with different lists, while a call of
\* user 2 is regenerating
C12_Witness ==
  /\ Done(1) /\ inv[1].path = "normal" /\ inv[1].result # <<>>
  /\ InFlight(2) /\ homeFeedCache[2].present
  /\ homeFeedCache[2].data # homeFeedCache[1].data

\* the awaits of the pipeline's catalog calls
StagePcs == {"seeds", "genres", "artists", "fallbacks"}

IsPrefix(a, b) == Len(a) <= Len(b) /\ SubSeq(b, 1, Len(a)) = a

AllCallsThrew(i) == Done(i) /\ inv[i].calls > 0 /\ ~inv[i].answered

\* C14: when every searchTracks and getRelatedTracks call throws, the call
\* returns [] without throwing, and it does so through the final catch-all
\* (whose "Top 50" search throws as well).
C14_TotalCatalogFailure ==
  \A i \in Slots : AllCallsThrew(i) =>
    /\ inv[i].outcome = "returned" /\ inv[i].result = <<>>
    /\ inv[i].path = "failed"

\* C14 (amended): it returns [] without throwing; with the taste-data reads
\* answered it does so on the normal path, after the seed fetches and the
\* genre, artist and all five fallback searches have thrown into their own
\* catches, and the empty list is the stored entry; only when a read has
\* failed it does so through the final catch-all, after the one "Top 50"
\* search.
C14_EmptyOnItsPath ==
  \A i \in Slots : AllCallsThrew(i) =>
    /\ inv[i].outcome = "returned" /\ inv[i].result = <<>>
    /\ \/ /\ inv[i].path = "normal"
          /\ inv[i].calls >= Len(genreFallbacks)
          /\ homeFeedCache[inv[i].userId].present
          /\ homeFeedCache[inv[i].userId].data = <<>>
       \/ /\ inv[i].path = "failed"
          /\ inv[i].calls = 1

\* user 1: the seed fetch, the genre and artist searches and the five
\* fallback searches all threw
C14_Witness ==
  \E i \in Slots : /\ AllCallsThrew(i) /\ inv[i].userId = 1
                    /\ inv[i].path = "normal" /\ inv[i].calls = 8

\* C15: an invocation in the catch-all has issued the one "Top 50" search;
\* when it resolves, the call returns exactly one playlist, "fallback", whose
\* tracks are the result filtered with empty exclude and dislike sets, and
\* the user's entry becomes that list with a 2-minute TTL and its track ids
\* as shownTrackIds; when it throws, the call returns [] and the cache is
\* left as it was.
C15_LastResortFallback ==
  [][\A i \in scope.slots :
       (inv[i].pc = "lastResort" /\ inv'[i].pc # "lastResort") =>
         LET u == inv[i].userId
             res == inv'[i].result
         IN /\ inv'[i].pc = "done" /\ inv'[i].calls = 1
            /\ \/ /\ inv'[i].path = "lastResort"
                  /\ Len(res) = 1 /\ res[1].id.stage = "fallback"
                  /\ \E r \in SearchResults("Top 50") :
                       res[1].tracks = filterAndDedupeTracks(r, {}, {}, 2, 30)
                  /\ homeFeedCache'[u] =
                       [present |-> TRUE, expires |-> now + 2 * 60 * 1000,
                        data |-> res, shownTrackIds |-> Ids(res[1].tracks)]
                  /\ \A v \in Users \ {u} : homeFeedCache'[v] = homeFeedCache[v]
               \/ /\ inv'[i].path = "failed"
                  /\ res = <<>>
                  /\ homeFeedCache' = homeFeedCache]_vars

\* a last-resort list that holds a track the user disliked and tracks of the
\* entry it replaced
C15_Witness ==
  \E i \in Slots :
    /\ Done(i) /\ inv[i].path = "lastResort"
    /\ ShownIds(inv[i].result) \cap DislikedOf(inv[i].userId) # {}
    /\ ShownIds(inv[i].result) \cap inv[i].previouslyShown # {}

\* C16: every list a call returns holds at least 4 playlists, each of them
\* with 25 to 30 tracks.
C16_FeedSizePromise ==
  \A i \in Slots : Done(i) =>
    /\ Len(inv[i].result) >= 4
    /\ \A k \in DOMAIN inv[i].result :
         /\ Len(inv[i].result[k].tracks) >= 25
         /\ Len(inv[i].result[k].tracks) <= 30

\* C20: the shownTrackIds of every stored entry is exactly the set of the
\* track ids of that entry's playlists.
C20_CacheEntryConsistency ==
  \A u \in Users : homeFeedCache[u].present =>
    homeFeedCache[u].shownTrackIds = ShownIds(homeFeedCache[u].data)

\* the stored entry of a regeneration that excluded the ids of the entry
\* before it: none of those ids is in the new entry
C20_Witness ==
  \E i \in Slots :
    /\ Done(i) /\ inv[i].path = "normal"
    /\ inv[i].previouslyShown # {} /\ inv[i].result # <<>>
    /\ homeFeedCache[inv[i].userId].data = inv[i].result
    /\ homeFeedCache[inv[i].userId].shownTrackIds \cap inv[i].previouslyShown = {}
    /\ \E j \in Slots : j # i /\ InFlight(j)

\* C17: a call of searchTracks or getRelatedTracks never throws; it makes at
\* most 2 attempts, the second one at once when the first has rejected and
\* only then; it returns the tracks of the first attempt that resolved, and
\* an empty array when both attempts have rejected.
C17_ClientFailureContract ==
  [][LET r == request'
         n == Len(r.log)
     IN /\ r.outcome # "thrown"
        /\ r.attempts <= 2
        /\ r.pc = "attempt" => (r.attempts = n + 1 /\ \A k \in 1..n : r.log[k] = Failed)
        /\ r.pc = "done" =>
             /\ r.outcome = "returned" /\ r.attempts = n
             /\ \A k \in 1..(n - 1) : r.log[k] = Failed
             /\ r.log[n] # Failed => r.result = TracksOf(r.fn, r.log[n])
             /\ r.log[n] = Failed => (n = 2 /\ r.result = <<>>)]_vars

\* a search whose first attempt rejected and whose second attempt answered a
\* track and something that is not a track
C17_Witness ==
  /\ request.pc = "done" /\ request.fn = "searchTracks"
  /\ request.attempts = 2 /\ request.log[1] = Failed
  /\ Len(request.log[2]) = 2 /\ Len(request.result) = 1

\* the tracks whose current row of user u is "like"
LikedNow(rows, u) == {r.trackId : r \in LikeRows(rows, u)}

\* at most one row per (user, track), holding the value of the latest set
\* that no remove followed
OneRowWithLatest(rows, latest) ==
  \A u \in PrefUsers, t \in PrefTracks :
    /\ Cardinality(RowsOf(rows, u, t)) <= 1
    /\ latest[u][t] = "none" <=> RowsOf(rows, u, t) = {}
    /\ \A r \in RowsOf(rows, u, t) : r.preference = latest[u][t]

\* C18: after every operation there is at most one row per (user, track),
\* with the value of the latest set not followed by a remove, and a
\* getLikedTracks call of u returns exactly the tracks whose current row of
\* u is "like".
C18_PreferenceUniqueness ==
  [][/\ OneRowWithLatest(trackPreferences', prefSession'.latest)
     /\ prefSession'.query # prefSession.query =>
          Ids(prefSession'.query.result)
            = LikedNow(trackPreferences, prefSession'.query.userId)]_vars

\* C18 (amended): the same of the rows; a getLikedTracks call of u with
\* limit n returns, without repetition, min(n, number of u's "like" rows)
\* tracks whose current row of u is "like", those with the latest createdAt
\* (the time of the row's insertion, which a later set does not change), so
\* exactly the liked tracks when there are at most n of them.
C18_LikedUpToLimit ==
  [][/\ OneRowWithLatest(trackPreferences', prefSession'.latest)
     /\ prefSession'.query # prefSession.query =>
          LET q == prefSession'.query
              likes == LikeRows(trackPreferences, q.userId)
              CreatedAt(t) == (CHOOSE r \in likes : r.trackId = t).createdAt
          IN /\ Ids(q.result) \subseteq LikedNow(trackPreferences, q.userId)
             /\ NoRepeat(q.result)
             /\ Len(q.result) = Min(q.limit, Cardinality(likes))
             /\ \A t \in Ids(q.result) :
                  \A r \in likes : r.trackId \notin Ids(q.result) =>
                    r.createdAt <= CreatedAt(t)]_vars

\* user 1 has disliked and then liked track 1, liked track 2 later, and gets
\* only track 2 from getLikedTracks({ limit: 1 })
C18_Witness ==
  /\ prefSession.query = [userId |-> 1, limit |-> 1, result |-> <<2>>]
  /\ LikedNow(trackPreferences, 1) = {1, 2}
  /\ \E r \in RowsOf(trackPreferences, 1, 1) : r.updatedAt > r.createdAt

\* C19: every playlists.addTrack call by the playlist's owner answers
\* { success: true } with the track stored at a position strictly greater
\* than every position the playlist had, and the positions of a playlist are
\* pairwise distinct, however two calls interleave.
C19_AddTrackPositions ==
  /\ \A a \in Adders :
       (adders[a].pc = "done" /\ adders[a].outcome # "Unauthorized") =>
         adders[a].outcome = "success" /\ adders[a].above
  /\ \A r1, r2 \in playlistTracks :
       (r1.playlistId = r2.playlistId /\ r1.position = r2.position) => r1 = r2

\* two calls for one playlist and one persisted track both read the same
\* MAX(position); the second insert is rejected
PositionRace ==
  \E a, b \in Adders :
    /\ a # b
    /\ adders[a].pc = "done" /\ adders[a].outcome = "success"
    /\ adders[b].pc = "done" /\ adders[b].outcome = "Duplicate entry"
    /\ adders[a].playlistId = adders[b].playlistId
    /\ adders[a].trackId = adders[b].trackId /\ adders[b].trackId # 0
    /\ adders[a].nextPosition = adders[b].nextPosition

\* the catalog calls of a pipeline that has searched the first g selected
\* genres, the first a selected artists and the first f fallback genres
PipelineCalls(st, g, a, f) ==
  [k \in 1..Len(st.seeds) |-> Call("getRelatedTracks", st.seeds[k].soundcloudId)]
  \o [k \in 1..g |-> Call("searchTracks", st.selectedGenres[k])]
  \o [k \in 1..a |-> Call("searchTracks", st.selectedArtists[k])]
  \o [k \in 1..f |-> Call("searchTracks", genreFallbacks[k])]

\* the calls are issued stage by stage: the fetches of all seeds together,
\* then genre searches, then artist searches, then fallback searches, and
\* after the seed stage one call at a time
StagesInOrder(st) ==
  /\ st.pc = "reads" => st.issued = <<>>
  /\ st.pc = "seeds" =>
       st.issued = PipelineCalls(st, 0, 0, 0) /\ st.outstanding = Len(st.seeds)
  /\ st.pc = "genres" =>
       st.issued = PipelineCalls(st, st.idx, 0, 0) /\ st.outstanding = 1
  /\ st.pc = "artists" =>
       /\ \E g \in 0..Len(st.selectedGenres) :
            st.issued = PipelineCalls(st, g, st.idx, 0)
       /\ st.outstanding = 1
  /\ st.pc = "fallbacks" =>
       /\ \E g \in 0..Len(st.selectedGenres), a \in 0..Len(st.selectedArtists) :
            st.issued = PipelineCalls(st, g, a, st.idx + 1)
       /\ st.outstanding = 1

\* C21: in every invocation no catalog call is issued before the three
\* taste-data reads have completed; the related-tracks fetches of all seeds
\* are issued together and have all completed when the first genre search
\* starts; genre searches come before artist searches and these before
\* fallback searches; in those three stages at most one call is outstanding.
C21_StageOrdering ==
  \A i \in Slots :
    /\ inv[i].issued # <<>> => inv[i].readsOut = 0
    /\ StagesInOrder(inv[i])

\* C21 (amended): the same of every invocation whose reads have all
\* succeeded; when a read fails, the one "Top 50" search of the catch-all is
\* issued at once, while up to two of the reads may still be outstanding.
C21_StageOrderingAfterReads ==
  \A i \in Slots :
    /\ (inv[i].issued # <<>> /\ inv[i].pc # "lastResort") => inv[i].readsOut = 0
    /\ inv[i].pc = "lastResort" =>
         /\ inv[i].issued = <<Call("searchTracks", "Top 50")>>
         /\ inv[i].outstanding = 1 /\ inv[i].readsOut <= 2
    /\ StagesInOrder(inv[i])

\* user 1's invocation awaits its second fallback search, after the fetch of
\* its seed, its genre search and its artist search
C21_Witness ==
  \E i \in Slots :
    /\ inv[i].pc = "fallbacks" /\ inv[i].userId = 1 /\ inv[i].idx = 1
    /\ inv[i].issued = PipelineCalls(inv[i], 1, 1, 2)

\* C22: while a genre or artist search is outstanding fewer than 5 playlists
\* are accepted (the count is tested before each search), and no invocation
\* accepts or returns more than 5 playlists.
C22_EarlyExitAtFive ==
  \A i \in Slots :
    /\ inv[i].pc \in {"genres", "artists"} => Len(inv[i].playlists) < 5
    /\ Len(inv[i].playlists) <= 5
    /\ Len(inv[i].result) <= 5

\* user 3's three seed playlists and two genre playlists: the third genre
\* and the two artists were never searched
C22_Witness ==
  \E i \in Slots :
    /\ Done(i) /\ inv[i].userId = 3 /\ Len(inv[i].result) = 5
    /\ inv[i].result[5].id.stage = "genre"
    /\ Len(inv[i].issued) = 5

\* the fallback pass of invocation i in one step of the pipeline: it is
\* entered and continued only with fewer than 4 playlists accepted, searches
\* the generic genres in their fixed order, one more at each step, and ends
\* when 4 playlists are accepted or the fifth genre has been searched; an
\* invocation that never entered it has accepted at least 4 playlists
FallbackPass(i) ==
  LET st == inv[i]
      nx == inv'[i]
  IN /\ nx.pc = "fallbacks" =>
          /\ Len(nx.playlists) < 4
          /\ nx.idx = (IF st.pc = "fallbacks" THEN st.idx + 1 ELSE 0)
          /\ nx.issued = Append(st.issued, Call("searchTracks", genreFallbacks[nx.idx + 1]))
     /\ (st.pc = "fallbacks" /\ nx.pc = "done") =>
          /\ Len(nx.result) >= 4 \/ st.idx + 1 = 5
          /\ Len(nx.result) <= 4
          /\ nx.issued = st.issued
     /\ (st.pc \in {"seeds", "genres", "artists"} /\ nx.pc = "done") =>
          Len(nx.result) >= 4

\* C23: the fallback pass runs only while fewer than 4 playlists are
\* accepted, searches Hip-hop, Electronic, Pop, Rock, Indie in this order,
\* each at most once, and stops as soon as 4 are accepted or the list is
\* exhausted; a normal-path result with fewer than 4 playlists comes after
\* all five searches, none of which yielded an accepted playlist.
C23_FallbackPass ==
  [][\A i \in scope.slots : (inv[i].pc \in StagePcs /\ inv'[i] # inv[i]) =>
       /\ FallbackPass(i)
       /\ (inv'[i].pc = "done" /\ Len(inv'[i].result) < 4) =>
            /\ inv[i].pc = "fallbacks" /\ inv[i].idx + 1 = 5
            /\ \A k \in DOMAIN inv'[i].result :
                 inv'[i].result[k].id.stage # "fallback-genre"]_vars

\* C23 (amended): the same of the pass; a normal-path result with fewer than
\* 4 playlists comes after all five searches (the playlists that some of
\* them yielded left the count below 4).
C23_FallbackPassExhausted ==
  [][\A i \in scope.slots : (inv[i].pc \in StagePcs /\ inv'[i] # inv[i]) =>
       /\ FallbackPass(i)
       /\ (inv'[i].pc = "done" /\ Len(inv'[i].result) < 4) =>
            inv[i].pc = "fallbacks" /\ inv[i].idx + 1 = 5]_vars

\* user 3's three seed playlists and the "Rock" fallback playlist: the pass
\* stopped at 4, "Indie" was never searched
C23_Witness ==
  \E i \in Slots :
    /\ Done(i) /\ inv[i].userId = 3 /\ Len(inv[i].result) = 4
    /\ inv[i].result[4].id = PlaylistId("fallback-genre", "", 0, "Rock")
    /\ inv[i].issued[Len(inv[i].issued)] = Call("searchTracks", "Rock")

\* C30: the playlist ids of every returned list are pairwise distinct.
C30_PlaylistIdsUnique ==
  \A i \in Slots : Done(i) =>
    \A k, m \in DOMAIN inv[i].result :
      k # m => inv[i].result[k].id # inv[i].result[m].id

\* the exclusion set of a regeneration is the shown-set of the entry read at
\* its start and nothing else, and the entry it stores holds the ids of its
\* own list only; finished on one of `paths`, it returns none of the
\* excluded ids
OneGenerationWindow(i, paths) ==
  LET st == inv[i]
      nx == inv'[i]
      u == nx.userId
  IN /\ (calls' = calls + 1 /\ nx.pc = "reads") =>
          nx.previouslyShown = PreviouslyShown(homeFeedCache[u])
     /\ (st.pc = "reads" /\ nx.pc = "seeds") =>
          nx.usedGlobal = st.previouslyShown
     /\ (st.pc \notin {"idle", "done"} /\ nx.pc = "done" /\ nx.path # "failed") =>
          homeFeedCache'[u].shownTrackIds = ShownIds(nx.result)
     /\ (st.pc \notin {"idle", "done"} /\ nx.pc = "done" /\ nx.path \in paths) =>
          ShownIds(nx.result) \cap st.previouslyShown = {}

\* C28: a regeneration excludes exactly the shownTrackIds of the entry that
\* precedes it and returns none of them, and its entry's shownTrackIds
\* replaces the old set: an id shown in generation N is excluded from
\* generation N+1 and is not in the exclusion set of generation N+2.
C28_SuppressionWindow ==
  [][\A i \in scope.slots :
       /\ OneGenerationWindow(i, {"normal", "lastResort"})
       /\ inv'[i].earlier \cap inv'[i].previouslyShown = {}]_vars

\* C28 (amended): the same of the regenerations that finish on the normal
\* path; one that finishes in the last-resort fallback excludes nothing, and
\* its entry's shownTrackIds (the ids of its own list) may hold ids of the
\* generation before it.
C28_WindowOnNormalPath ==
  [][\A i \in scope.slots :
       /\ OneGenerationWindow(i, {"normal"})
       /\ inv'[i].earlier \cap inv'[i].previouslyShown = {}]_vars

\* three generations in a row: the third returns a track that the first one
\* excluded
C28_Witness ==
  \E i \in Slots :
    /\ Done(i) /\ inv[i].path = "normal"
    /\ ShownIds(inv[i].result) \cap inv[i].earlier # {}

\* an unexpired entry with no playlists
EmptyFresh(cached) == cached.present /\ cached.data = <<>> /\ cached.expires > now

\* C29: a normal-path regeneration that accepts no playlist stores the empty
\* list with a 2-minute TTL and an empty shownTrackIds in place of the
\* user's previous entry; a non-forced call that begins while that entry is
\* unexpired returns [] with no read and no catalog call, leaving the cache
\* as it is.
C29_EmptyResultCached ==
  [][\A i \in scope.slots :
       LET u == inv'[i].userId IN
       /\ (inv[i].pc \in StagePcs /\ inv'[i].pc = "done" /\ inv'[i].result = <<>>) =>
            homeFeedCache'[u] = [present |-> TRUE, expires |-> now + 120000,
                                 data |-> <<>>, shownTrackIds |-> {}]
       /\ (calls' = calls + 1 /\ ~inv'[i].forceRefresh /\ EmptyFresh(homeFeedCache[u])) =>
            /\ inv'[i].pc = "done" /\ inv'[i].result = <<>>
            /\ inv'[i].reads = 0 /\ inv'[i].calls = 0
            /\ homeFeedCache' = homeFeedCache]_vars

\* a call of user 1, one minute after an empty list was stored for them, is
\* served that list
C29_Witness ==
  \E i \in Slots :
    /\ Done(i) /\ inv[i].userId = 1 /\ inv[i].path = "hit" /\ inv[i].result = <<>>
    /\ now = inv[i].until - HOME_FEED_TTL_MS + TickMs
    /\ homeFeedCache[1].shownTrackIds = {}

\* the greedy reference: the tracks kept when the input is walked in order
\* from position k on, `kept` being those kept so far
RECURSIVE GreedyKept(_, _, _, _, _, _)
GreedyKept(tracks, k, excludeIds, dislikedIds, maxPerArtist, kept) ==
  IF k > Len(tracks) THEN kept
  ELSE LET t == tracks[k]
           dropped ==
             \/ t = NoId
             \/ t \in dislikedIds
             \/ t \in excludeIds
             \/ \E j \in 1..(k - 1) : tracks[j] = t
             \/ Cardinality({n \in DOMAIN kept : ArtistKey(kept[n]) = ArtistKey(t)})
                  >= maxPerArtist
       IN GreedyKept(tracks, k + 1, excludeIds, dislikedIds, maxPerArtist,
                     IF dropped THEN kept ELSE Append(kept, t))

\* s is t with some elements left out
RECURSIVE IsSubsequence(_, _)
IsSubsequence(s, t) ==
  IF s = <<>> THEN TRUE
  ELSE IF t = <<>> THEN FALSE
  ELSE IF Head(s) = Head(t) THEN IsSubsequence(Tail(s), Tail(t))
  ELSE IsSubsequence(s, Tail(t))

\* C24: filterAndDedupeTracks returns the first `limit` tracks that the
\* greedy walk of its input keeps (a track is dropped iff it has no numeric
\* id, is disliked, is excluded, repeats an earlier id of the input, or
\* maxPerArtist tracks of its artist are already kept); the result is a
\* subsequence of the input with distinct ids and at most `limit` tracks.
C24_FilterIsGreedy ==
  (calc.fn = "filterAndDedupeTracks" /\ calc.pc = "returned") =>
    LET kept == GreedyKept(calc.tracks, 1, calc.excludeIds, calc.dislikedIds,
                           calc.maxPerArtist, <<>>)
    IN /\ calc.out = SubSeq(kept, 1, Min(calc.limit, Len(kept)))
       /\ IsSubsequence(calc.out, calc.tracks)
       /\ NoRepeat(calc.out)
       /\ Len(calc.out) <= calc.limit

\* of <<3, 3, 1>> with one track per artist only the first 3 is returned:
\* the second is a duplicate, track 1 is of the same artist
C24_Witness ==
  /\ calc.fn = "filterAndDedupeTracks" /\ calc.pc = "returned"
  /\ calc.tracks = <<3, 3, 1>> /\ calc.maxPerArtist = 1 /\ calc.limit = 2
  /\ calc.out = <<3>>

\* what a returned call of the sampler gave, as candidates
Sampled == [k \in 1..Len(calc.out) |-> calc.candidates[calc.out[k]]]

\* C25: weightedRandomSelect returns exactly min(count, |candidates|)
\* candidates, no candidate twice, and all of them in input order when
\* there are at most count candidates.
C25_SamplerCountDistinct ==
  (calc.fn = "weightedRandomSelect" /\ calc.pc = "returned") =>
    LET n == Len(calc.candidates)
    IN /\ Len(calc.out) = Min(calc.count, n)
       /\ \A k \in DOMAIN calc.out : calc.out[k] \in 1..n
       /\ NoRepeat(calc.out)
       /\ n <= calc.count => calc.out = [k \in 1..n |-> k]
       /\ Sampled \in weightedRandomSelect(calc.candidates, calc.count)

\* two of three candidates were drawn by the loop, the zero-score one first
C25_Witness ==
  /\ calc.fn = "weightedRandomSelect" /\ calc.pc = "returned"
  /\ calc.candidates = <<[score |-> 2], [score |-> 0], [score |-> 1]>>
  /\ calc.count = 2 /\ calc.i = 2
  /\ calc.out = <<2, 3>>

\* the records of a taste profile that score genres and artists, likes first
Scoring(taste) ==
  LET liked == SelectSeq(taste.prefs, IsLike)
  IN [k \in 1..Len(liked) |->
        [genre |-> liked[k].genre, artist |-> liked[k].artist,
         w |-> 3 * liked[k].decay]]
     \o [k \in 1..Len(taste.history) |->
        [genre |-> taste.history[k].genre, artist |-> taste.history[k].artist,
         w |-> 2 * taste.history[k].cdecay]]

RECURSIVE SumOver(_, _, _)
SumOver(records, field, key) ==
  IF records = <<>> THEN 0
  ELSE (IF Trim(Head(records)[field]) = key THEN Head(records).w ELSE 0)
       + SumOver(Tail(records), field, key)

\* the keys of the `top` highest-scoring genres or artists of a profile, a
\* key of equal score ranking by its first record
TopKeys(taste, field, top) ==
  LET records == Scoring(taste)
      keys == {Trim(records[k][field]) : k \in DOMAIN records} \ {""}
      First(key) == CHOOSE k \in DOMAIN records :
                      /\ Trim(records[k][field]) = key
                      /\ \A j \in 1..(k - 1) : Trim(records[j][field]) # key
      Before(a, b) ==
        \/ SumOver(records, field, a) > SumOver(records, field, b)
        \/ SumOver(records, field, a) = SumOver(records, field, b)
             /\ First(a) < First(b)
  IN {key \in keys : Cardinality({other \in keys : Before(other, key)}) < top}

AllKeys(taste, field) ==
  {Trim(Scoring(taste)[k][field]) : k \in DOMAIN Scoring(taste)} \ {""}

\* the non-disliked seed candidates of a profile in stable descending order
\* of score, the first `top` of them
TopCandidates(taste, top) ==
  LET all == SeedCandidates(taste.prefs, taste.history)
      ok == {k \in DOMAIN all :
               all[k].soundcloudId \notin DislikedIdSet(taste.disliked)}
      Before(j, k) ==
        \/ all[j].score > all[k].score
        \/ all[j].score = all[k].score /\ j < k
      Rank(k) == Cardinality({j \in ok : Before(j, k)}) + 1
  IN [r \in 1..Min(top, Cardinality(ok)) |->
        all[CHOOSE k \in ok : Rank(k) = r]]

\* C26: the seeds of a generation are at most 3 distinct candidates among
\* the 10 highest-scoring non-disliked seed candidates (stable descending
\* order, likes before history), none with a disliked id; the selected
\* genres are min(3, n) distinct keys among the 5 highest-scoring genres,
\* the selected artists min(2, n) distinct keys among the 4 highest-scoring
\* artists.
C26_SelectionBounds ==
  (calc.fn = "weightedRandomSelect" /\ calc.pc = "returned") =>
    /\ calc.what = "seeds" =>
         /\ calc.candidates = TopCandidates(calc.taste, 10)
         /\ Len(calc.out) <= 3
         /\ Len(calc.out) = Min(3, Len(calc.candidates))
         /\ NoRepeat(calc.out)
         /\ \A k \in DOMAIN calc.out :
              Sampled[k].soundcloudId \notin DislikedIdSet(calc.taste.disliked)
    /\ calc.what = "genres" =>
         /\ Len(calc.out) = Min(3, Cardinality(AllKeys(calc.taste, "genre")))
         /\ NoRepeat(Keys(Sampled))
         /\ Ids(Keys(Sampled)) \subseteq TopKeys(calc.taste, "genre", 5)
    /\ calc.what = "artists" =>
         /\ Len(calc.out) = Min(2, Cardinality(AllKeys(calc.taste, "artist")))
         /\ NoRepeat(Keys(Sampled))
         /\ Ids(Keys(Sampled)) \subseteq TopKeys(calc.taste, "artist", 4)

\* three seeds were drawn from the ten best of eleven non-disliked
\* candidates, two of them plays of the same track
C26_Witness ==
  /\ calc.fn = "weightedRandomSelect" /\ calc.pc = "returned"
  /\ calc.what = "seeds"
  /\ Len(SelectSeq(SeedCandidates(calc.taste.prefs, calc.taste.history),
                   LAMBDA c : c.soundcloudId \notin DislikedIdSet(calc.taste.disliked)))
       = 11
  /\ Len(calc.candidates) = 10 /\ Len(calc.out) = 3
  /\ Sampled[1].soundcloudId = Sampled[2].soundcloudId

\* three of seven genres and two of six artists were selected
C26_WitnessKeys ==
  /\ calc.fn = "weightedRandomSelect" /\ calc.pc = "returned"
  /\ \/ calc.what = "genres" /\ Cardinality(AllKeys(calc.taste, "genre")) = 7
           /\ Len(calc.out) = 3
     \/ calc.what = "artists" /\ Cardinality(AllKeys(calc.taste, "artist")) = 6
           /\ Len(calc.out) = 2

\* the scores a liked preference of the call adds something to
Scored ==
  {f \in {"genre", "artist", "seed"} :
     \/ f = "genre" /\ Trim(calc.genre) # ""
     \/ f = "artist" /\ Trim(calc.artist) # ""
     \/ f = "seed" /\ IsFinite(ParseInt(calc.soundcloudId))}

\* C27 (as stated): of two liked preferences that differ only in createdAt
\* the more recent one adds strictly more to the genre, artist and seed
\* scores, whatever the two timestamps are.
C27_DecayStrict ==
  (calc.fn = "timeDecayFactor" /\ calc.pc = "returned") =>
    \A f \in Scored : calc.out.recent[f] > calc.out.older[f]

\* C27 (amended): the more recent preference never adds less; it adds
\* strictly more when the older one was created before Date.now() and the
\* more recent one is not so old that Math.exp underflows; two preferences
\* created at or after Date.now() add the same, the full weight.
C27_DecayMonotone ==
  (calc.fn = "timeDecayFactor" /\ calc.pc = "returned") =>
    \A f \in Scored :
      /\ calc.out.recent[f] >= calc.out.older[f]
      /\ (calc.older < calc.at /\ calc.at - calc.recent <= 21 * ExpRange)
           => calc.out.recent[f] > calc.out.older[f]
      /\ calc.older >= calc.at
           => /\ calc.out.recent[f] = calc.out.older[f]
              /\ calc.out.recent[f] \in {3 * Exp2(0), 5 * Exp2(0)}

\* a like of one half life ago adds half of what a like of now adds to the
\* three scores
C27_Witness ==
  /\ calc.fn = "timeDecayFactor" /\ calc.pc = "returned"
  /\ calc.at = 21 * 2 /\ calc.recent = 21 * 2 /\ calc.older = 21
  /\ Scored = {"genre", "artist", "seed"}
  /\ calc.out.recent =
       [genre |-> 3 * Exp2(0), artist |-> 3 * Exp2(0), seed |-> 5 * Exp2(0)]
  /\ calc.out.older =
       [genre |-> 3 * Exp2(1), artist |-> 3 * Exp2(1), seed |-> 5 * Exp2(1)]
  /\ Exp2(0) = 2 * Exp2(1)

\* two likes created after Date.now() add the same to the three scores
C27_FutureTie ==
  /\ calc.fn = "timeDecayFactor" /\ calc.pc = "returned"
  /\ calc.older > calc.at /\ Scored = {"genre", "artist", "seed"}
  /\ calc.out.recent = calc.out.older

====
